---- MODULE Spec2Model ----
(***************************************************************************)
(* Model of rocketmq::PullConsumerImpl                                     *)
(* (src/src/main/cpp/rocketmq/PullConsumerImpl.cpp).                       *)
(*                                                                         *)
(* Five parts share one set of variables:                                  *)
(*   lifecycle   start() / shutdown() run by several threads on state_     *)
(*   route       queuesFor() on topic_route_table_ and its fetch callback  *)
(*   offset      queryOffset() and its completion callback                 *)
(*   pull        pull() and its completion callback                        *)
(*   heartbeat   prepareHeartbeatData() on the shared heartbeat request    *)
(* Each part has its own specification; SpecFrame runs them side by side.  *)
(***************************************************************************)
EXTENDS Integers, Sequences, FiniteSets, TLC

VARIABLES
  state_,              \* std::atomic<State> state_ of the client
  pc,                  \* per thread: position inside start() / shutdown()
  observers,           \* number of addClientObserver calls received by client_manager_
  stopped_logs,        \* number of "DefaultMQPullConsumerImpl stopped" log lines
  reads,               \* history: how many line-10 loads saw STARTED / another state
  nlifecycle,          \* number of start()/shutdown() calls made so far
  topic_route_table_,  \* map topic -> partitions of the cached route
  route_mtx,           \* holder of topic_route_table_mtx_ (0 = free, else call index)
  qf_calls,            \* the queuesFor calls made so far, with locals and promise
  nupdates,            \* number of route updates the refresher has begun
  refresher,           \* the route update in progress, if any
  published,           \* history: the <<topic, partitions>> published in whole
  qo_calls,            \* the queryOffset calls made so far
  pull_calls,          \* the pull calls made so far
  heartbeat_request,   \* the entries of the HeartbeatRequest being prepared
  hb_calls,            \* number of prepareHeartbeatData calls made so far
  dispatched_in        \* history: <<rpc, state_>> for every RPC handed out

lifecycle_vars == <<state_, pc, observers, stopped_logs, reads, nlifecycle>>
route_vars == <<topic_route_table_, route_mtx, qf_calls, nupdates, refresher, published>>
offset_vars == <<qo_calls>>
pull_vars == <<pull_calls>>
heartbeat_vars == <<heartbeat_request, hb_calls>>
vars == <<state_, pc, observers, stopped_logs, reads, nlifecycle,
          topic_route_table_, route_mtx, qf_calls, nupdates, refresher, published,
          qo_calls, pull_calls, heartbeat_request, hb_calls, dispatched_in>>

(***************************************************************************)
(* Bounds                                                                  *)
(***************************************************************************)
NumThreads == 2
MaxLifecycleCalls == 4
MaxQueuesForCalls == 2
MaxRouteUpdates == 2
MaxQueryOffsetCalls == 2
MaxPullCalls == 1
MaxMessages == 3
MaxHeartbeatEntries == 4
MaxFrameOps == 3

Threads == 1..NumThreads

(***************************************************************************)
(* Lifecycle: ClientState and start() / shutdown()                         *)
(***************************************************************************)
States == <<"INITIAL", "STARTING", "STARTED", "STOPPING", "STOPPED">>

StateSet == {States[i] : i \in 1..Len(States)}

\* position of a state in the declaration order of the State enum
Rank(s) == CHOOSE i \in 1..Len(States) : States[i] = s

\* line 10: start() goes on to register only when the loaded state is STARTED
StartShouldRegisterNoReturn(s) == TRUE

StartShouldRegister(s) == s = "STARTED"

\* line 22: the value shutdown() expects in its compare_exchange_strong
ShutdownExpectedAny(s) == TRUE

ShutdownExpected(s) == s = "STOPPING"

\* line 23: the value shutdown() stores when the compare-and-set succeeds
ShutdownDesiredStarted == "STARTED"

ShutdownDesired == "STOPPED"

\* ClientImpl::start(), first step: INITIAL -> STARTING, otherwise return
ClientImplStartBegin(s) == IF s = "INITIAL" THEN "STARTING" ELSE s

\* ClientImpl::start(), last step: STARTING -> STARTED
ClientImplStartEnd(s) == IF s = "STARTING" THEN "STARTED" ELSE s

\* ClientImpl::shutdown(): STARTED -> STOPPING, otherwise no change
ClientImplShutdown(s) == IF s = "STARTED" THEN "STOPPING" ELSE s

\* a thread calls start(): line 8, about to enter ClientImpl::start()
StartCall(t) ==
  /\ pc[t] = "idle"
  /\ nlifecycle < MaxLifecycleCalls
  /\ nlifecycle' = nlifecycle + 1
  /\ pc' = [pc EXCEPT ![t] = "start_base"]
  /\ UNCHANGED <<state_, observers, stopped_logs, reads>>
  /\ UNCHANGED <<route_vars, offset_vars, pull_vars, heartbeat_vars, dispatched_in>>

\* line 9, ClientImpl::start(): claim the start or return at once
StartBase(t) ==
  /\ pc[t] = "start_base"
  /\ state_' = ClientImplStartBegin(state_)
  /\ pc' = [pc EXCEPT ![t] = IF state_ = "INITIAL" THEN "start_base_end" ELSE "start_check"]
  /\ UNCHANGED <<observers, stopped_logs, reads, nlifecycle>>
  /\ UNCHANGED <<route_vars, offset_vars, pull_vars, heartbeat_vars, dispatched_in>>

\* line 9, ClientImpl::start(): the start sequence completes
StartBaseEnd(t) ==
  /\ pc[t] = "start_base_end"
  /\ state_' = ClientImplStartEnd(state_)
  /\ pc' = [pc EXCEPT ![t] = "start_check"]
  /\ UNCHANGED <<observers, stopped_logs, reads, nlifecycle>>
  /\ UNCHANGED <<route_vars, offset_vars, pull_vars, heartbeat_vars, dispatched_in>>

\* lines 10-13: load state_; warn and return unless it is STARTED
StartCheck(t) ==
  /\ pc[t] = "start_check"
  /\ reads' = IF state_ = "STARTED"
                THEN [reads EXCEPT !.started = @ + 1]
                ELSE [reads EXCEPT !.other = @ + 1]
  /\ pc' = [pc EXCEPT ![t] = IF StartShouldRegister(state_) THEN "start_register" ELSE "idle"]
  /\ UNCHANGED <<state_, observers, stopped_logs, nlifecycle>>
  /\ UNCHANGED <<route_vars, offset_vars, pull_vars, heartbeat_vars, dispatched_in>>

\* line 14: client_manager_->addClientObserver(shared_from_this())
StartRegister(t) ==
  /\ pc[t] = "start_register"
  /\ observers' = observers + 1
  /\ pc' = [pc EXCEPT ![t] = "idle"]
  /\ UNCHANGED <<state_, stopped_logs, reads, nlifecycle>>
  /\ UNCHANGED <<route_vars, offset_vars, pull_vars, heartbeat_vars, dispatched_in>>

\* a thread calls shutdown(): line 17, about to enter ClientImpl::shutdown()
ShutdownCall(t) ==
  /\ pc[t] = "idle"
  /\ nlifecycle < MaxLifecycleCalls
  /\ nlifecycle' = nlifecycle + 1
  /\ pc' = [pc EXCEPT ![t] = "shutdown_base"]
  /\ UNCHANGED <<state_, observers, stopped_logs, reads>>
  /\ UNCHANGED <<route_vars, offset_vars, pull_vars, heartbeat_vars, dispatched_in>>

\* line 21: ClientImpl::shutdown()
ShutdownBase(t) ==
  /\ pc[t] = "shutdown_base"
  /\ state_' = ClientImplShutdown(state_)
  /\ pc' = [pc EXCEPT ![t] = "shutdown_cas"]
  /\ UNCHANGED <<observers, stopped_logs, reads, nlifecycle>>
  /\ UNCHANGED <<route_vars, offset_vars, pull_vars, heartbeat_vars, dispatched_in>>

\* lines 22-25: compare_exchange_strong(STOPPING, STOPPED), log when it wins
ShutdownCas(t) ==
  /\ pc[t] = "shutdown_cas"
  /\ IF ShutdownExpected(state_)
       THEN /\ state_' = ShutdownDesired
            /\ stopped_logs' = stopped_logs + 1
       ELSE UNCHANGED <<state_, stopped_logs>>
  /\ pc' = [pc EXCEPT ![t] = "idle"]
  /\ UNCHANGED <<observers, reads, nlifecycle>>
  /\ UNCHANGED <<route_vars, offset_vars, pull_vars, heartbeat_vars, dispatched_in>>

(***************************************************************************)
(* Lifecycle claims                                                        *)
(***************************************************************************)
InShutdown == {t \in Threads : pc[t] \in {"shutdown_base", "shutdown_cas"}}

\* C4: when shutdown() runs concurrently on several threads of a started
\* client, exactly one call wins the STOPPING -> STOPPED compare-and-set and
\* logs "stopped" (never two), the log is written exactly when the state has
\* become STOPPED, and once every shutdown() call has returned the state is
\* STOPPED.
C4_OneShutdownWins ==
  /\ stopped_logs <= 1
  /\ (stopped_logs = 1) <=> (state_ = "STOPPED")
  /\ (state_ \in {"STOPPING", "STOPPED"} /\ InShutdown = {})
       => (state_ = "STOPPED" /\ stopped_logs = 1)

\* a shutdown() is still before its compare-and-set while another call has
\* already won it
C4_Witness ==
  /\ \E t \in Threads : pc[t] = "shutdown_cas"
  /\ state_ = "STOPPED"
  /\ stopped_logs = 1

\* the positions at which a thread executes PullConsumerImpl's own code
OwnPositions == {"idle", "start_check", "start_register", "shutdown_cas"}

\* C9: every change of ClientState goes to a later state of INITIAL,
\* STARTING, STARTED, STOPPING, STOPPED, and a step of the consumer's own code
\* (outside the base start/shutdown sequence) changes the state only from
\* STOPPING to STOPPED.
C9_StateMonotonic ==
  [][ state_' # state_ =>
        /\ Rank(state_') > Rank(state_)
        /\ \A t \in Threads :
             (pc[t] \in OwnPositions /\ pc'[t] # pc[t])
               => (pc[t] = "shutdown_cas" /\ state_ = "STOPPING" /\ state_' = "STOPPED")
    ]_vars

\* the whole chain has been walked and all calls have returned
C9_Witness ==
  /\ state_ = "STOPPED"
  /\ \A t \in Threads : pc[t] = "idle"
  /\ reads.started > 0

InRegister == {t \in Threads : pc[t] = "start_register"}

\* C10: start() calls addClientObserver exactly when the state it loaded
\* after the base start sequence was STARTED: the registrations made or about
\* to be made equal the loads that saw STARTED, so a load of any other state
\* returns without registering.
C10_RegisterIffStarted ==
  observers + Cardinality(InRegister) = reads.started

\* one start() saw STARTED and registered, another saw a different state
C10_Witness ==
  /\ reads.started > 0
  /\ reads.other > 0
  /\ observers = reads.started
  /\ \A t \in Threads : pc[t] = "idle"


\* C17: over any sequence of start() calls the consumer is registered as an
\* observer with the client manager at most once.
C17_RegisteredAtMostOnce == observers <= 1

(***************************************************************************)
(* Route cache: queuesFor(topic)                                           *)
(***************************************************************************)
Topics == {"TopicA", "TopicB"}

QueueIds == {0, 1}

\* the broker address that owns a partition
AddressOf(id) == IF id = 0 THEN "broker-a:8081" ELSE "broker-b:8081"

Partition(topic, id) == [topic |-> topic, id |-> id, address |-> AddressOf(id)]

\* the partition lists a route of the topic may carry
RouteChoices(topic) ==
  { <<>>,
    <<Partition(topic, 0), Partition(topic, 1)>>,
    <<Partition(topic, 1), Partition(topic, 0)>> }

\* a TopicRouteDataPtr handed to the fetch callback: null or a route
NullRoute == [null |-> TRUE, partitions |-> <<>>]

RoutePtr(partitions) == [null |-> FALSE, partitions |-> partitions]

RoutePtrs(topic) == {NullRoute} \cup {RoutePtr(r) : r \in RouteChoices(topic)}

\* Partition::asMessageQueue(): the queue reference of a partition
asMessageQueue(partition) ==
  [topic |-> partition.topic,
   queue_id |-> partition.id,
   service_address |-> partition.address]

\* lines 35-39 and 46-49: emplace_back one queue per partition, front to back
RECURSIVE MessageQueuesOfReversed(_)
MessageQueuesOfReversed(partitions) ==
  IF partitions = <<>> THEN <<>>
  ELSE MessageQueuesOfReversed(Tail(partitions)) \o <<asMessageQueue(Head(partitions))>>

RECURSIVE MessageQueuesOf(_)
MessageQueuesOf(partitions) ==
  IF partitions = <<>> THEN <<>>
  ELSE <<asMessageQueue(Head(partitions))>> \o MessageQueuesOf(Tail(partitions))

\* MQClientException(message, code, file, line); a message is a list of pieces
MQClientException(message, code) == [message |-> message, code |-> code]

NoException == MQClientException(<<>>, 0)

\* std::promise<T>: sets counts the set_value / set_exception calls made on
\* it; the shared state keeps the first result
NewPromise(empty) ==
  [sets |-> 0, state |-> "pending", value |-> empty, exception |-> NoException]

set_value(promise, v) ==
  IF promise.sets = 0
    THEN [promise EXCEPT !.sets = 1, !.state = "value", !.value = v]
    ELSE [promise EXCEPT !.sets = @ + 1]

set_exception(promise, e) ==
  IF promise.sets = 0
    THEN [promise EXCEPT !.sets = 1, !.state = "exception", !.exception = e]
    ELSE [promise EXCEPT !.sets = @ + 1]

\* line 32: topic_route_table_.contains(topic)
contains(table, topic) == topic \in DOMAIN table

\* lines 44-52: the callback given to getRouteFor; it completes the promise
\* only for a non-null route
QueuesForCallbackSetInLoop(promise, route) ==
  IF ~route.null
    THEN [set_value(promise, MessageQueuesOf(route.partitions))
            EXCEPT !.sets = promise.sets + Len(route.partitions)]
    ELSE promise

QueuesForCallback(promise, route) ==
  IF ~route.null THEN set_value(promise, MessageQueuesOf(route.partitions)) ELSE promise

QfIndex == 1..Len(qf_calls)

\* the value of route_mtx while the refresher holds the mutex
Refresher == MaxQueuesForCalls + 1

NoUpdate == [busy |-> FALSE, topic |-> "", partitions |-> <<>>]

\* line 31: absl::MutexLock acquires topic_route_table_mtx_ only when no one
\* holds it
MutexLockNoExclusion(holder) == TRUE

MutexLockAcquires(holder) == holder = 0

\* lines 41-43: the holder of the mutex when the scope of lines 30-43 is
\* left, on the hit path (return) and on the miss path (end of the block)
MutexKeptOnMiss(c, hit) == IF hit THEN 0 ELSE c

MutexAfterLookup(c, hit) == 0

\* line 29: queuesFor(topic) is entered and makes its promise
QueuesForCall(topic) ==
  /\ Len(qf_calls) < MaxQueuesForCalls
  /\ qf_calls' = Append(qf_calls,
       [topic |-> topic, pc |-> "lock", hit |-> FALSE, topic_route |-> <<>>,
        promise |-> NewPromise(<<>>), fetches |-> 0, cb |-> "none", cb_route |-> NullRoute])
  /\ UNCHANGED <<topic_route_table_, route_mtx, nupdates, refresher, published>>
  /\ UNCHANGED <<lifecycle_vars, offset_vars, pull_vars, heartbeat_vars, dispatched_in>>

\* line 31: absl::MutexLock lk(&topic_route_table_mtx_)
QueuesForLock(c) ==
  /\ qf_calls[c].pc = "lock"
  /\ MutexLockAcquires(route_mtx)
  /\ route_mtx' = c
  /\ qf_calls' = [qf_calls EXCEPT ![c].pc = "locked"]
  /\ UNCHANGED <<topic_route_table_, nupdates, refresher, published>>
  /\ UNCHANGED <<lifecycle_vars, offset_vars, pull_vars, heartbeat_vars, dispatched_in>>

\* lines 32-43: under the lock, a cached topic completes the promise from the
\* cached route and returns; otherwise the lock is released
QueuesForLookup(c) ==
  /\ qf_calls[c].pc = "locked"
  /\ route_mtx = c
  /\ LET call == qf_calls[c]
     IN IF contains(topic_route_table_, call.topic)
          THEN qf_calls' = [qf_calls EXCEPT ![c] =
                 [call EXCEPT !.topic_route = topic_route_table_[call.topic],
                              !.promise = set_value(call.promise,
                                            MessageQueuesOf(topic_route_table_[call.topic])),
                              !.hit = TRUE,
                              !.pc = "returned"]]
          ELSE qf_calls' = [qf_calls EXCEPT ![c].pc = "fetch"]
  /\ route_mtx' = MutexAfterLookup(c, contains(topic_route_table_, qf_calls[c].topic))
  /\ UNCHANGED <<topic_route_table_, nupdates, refresher, published>>
  /\ UNCHANGED <<lifecycle_vars, offset_vars, pull_vars, heartbeat_vars, dispatched_in>>

\* lines 44-54: getRouteFor(topic, callback), then return the future
QueuesForFetch(c) ==
  /\ qf_calls[c].pc = "fetch"
  /\ qf_calls' = [qf_calls EXCEPT ![c].fetches = @ + 1,
                                  ![c].cb = "pending",
                                  ![c].pc = "returned"]
  /\ dispatched_in' = dispatched_in \cup {<<"getRouteFor", state_>>}
  /\ UNCHANGED <<topic_route_table_, route_mtx, nupdates, refresher, published>>
  /\ UNCHANGED <<lifecycle_vars, offset_vars, pull_vars, heartbeat_vars>>

\* the route fetch completes and invokes the callback of lines 44-52 with a
\* route or with null (topic unknown, or the fetch failed)
RouteFetchCompletesCaching(c, route) ==
  /\ qf_calls[c].cb = "pending"
  /\ qf_calls' = [qf_calls EXCEPT ![c].cb = "fired",
                                  ![c].cb_route = route,
                                  ![c].promise = QueuesForCallback(@, route)]
  /\ topic_route_table_' =
       [t \in DOMAIN topic_route_table_ \cup {qf_calls[c].topic} |->
          IF t = qf_calls[c].topic THEN route.partitions ELSE topic_route_table_[t]]
  /\ UNCHANGED <<route_mtx, nupdates, refresher, published>>
  /\ UNCHANGED <<lifecycle_vars, offset_vars, pull_vars, heartbeat_vars, dispatched_in>>

RouteFetchCompletes(c, route) ==
  /\ qf_calls[c].cb = "pending"
  /\ qf_calls' = [qf_calls EXCEPT ![c].cb = "fired",
                                  ![c].cb_route = route,
                                  ![c].promise = QueuesForCallback(@, route)]
  /\ UNCHANGED <<topic_route_table_, route_mtx, nupdates, refresher, published>>
  /\ UNCHANGED <<lifecycle_vars, offset_vars, pull_vars, heartbeat_vars, dispatched_in>>

\* what a reader would find for the topic while its entry is being written:
\* a route that is not complete yet
PartialRoute(partitions) ==
  IF partitions = <<>> THEN <<>> ELSE SubSeq(partitions, 1, Len(partitions) - 1)

\* the table with the entry of the topic set to the partitions
TableWith(table, topic, partitions) ==
  [t \in DOMAIN table \cup {topic} |-> IF t = topic THEN partitions ELSE table[t]]

\* the route refresher takes the mutex and starts to write the entry of a
\* topic (a new entry, or the replacement of the old one as a whole)
UpdateRouteBegin(topic, partitions) ==
  /\ nupdates < MaxRouteUpdates
  /\ route_mtx = 0
  /\ route_mtx' = Refresher
  /\ nupdates' = nupdates + 1
  /\ refresher' = [busy |-> TRUE, topic |-> topic, partitions |-> partitions]
  /\ topic_route_table_' = TableWith(topic_route_table_, topic, PartialRoute(partitions))
  /\ UNCHANGED <<qf_calls, published>>
  /\ UNCHANGED <<lifecycle_vars, offset_vars, pull_vars, heartbeat_vars, dispatched_in>>

\* the refresher completes the entry and releases the mutex: the route is
\* published
UpdateRoutePublish ==
  /\ refresher.busy
  /\ route_mtx = Refresher
  /\ route_mtx' = 0
  /\ refresher' = NoUpdate
  /\ topic_route_table_' =
       TableWith(topic_route_table_, refresher.topic, refresher.partitions)
  /\ published' = published \cup {<<refresher.topic, refresher.partitions>>}
  /\ UNCHANGED <<qf_calls, nupdates>>
  /\ UNCHANGED <<lifecycle_vars, offset_vars, pull_vars, heartbeat_vars, dispatched_in>>

(***************************************************************************)
(* Route cache claims                                                      *)
(***************************************************************************)
\* C1: a queuesFor call that missed the cache makes exactly one external
\* route fetch, and once the fetch callback has fired (with a route, or with
\* null for an absent route or a failure) its future is resolved exactly once.
C1_MissResolvedOnce ==
  \A c \in QfIndex :
    (~qf_calls[c].hit /\ qf_calls[c].pc = "returned") =>
      /\ qf_calls[c].fetches = 1
      /\ qf_calls[c].cb = "fired" => qf_calls[c].promise.sets = 1

\* C3: when queuesFor holds the lock and its topic is in the route cache, the
\* call returns with its future already resolved, holding one queue
\* reference per partition of the cached route in the same order, without
\* having made an external route fetch; after such a return the call does
\* nothing more (so it never fetches later either).
C3_HitFromCache ==
  [][ \A c \in QfIndex :
        /\ (qf_calls[c].pc = "locked" /\ qf_calls'[c].pc # "locked"
              /\ contains(topic_route_table_, qf_calls[c].topic))
             => LET cached == topic_route_table_[qf_calls[c].topic]
                    call == qf_calls'[c]
                IN /\ call.hit
                   /\ call.pc = "returned"
                   /\ call.promise.sets = 1
                   /\ call.promise.state = "value"
                   /\ Len(call.promise.value) = Len(cached)
                   /\ \A i \in 1..Len(cached) :
                        call.promise.value[i] = asMessageQueue(cached[i])
                   /\ call.fetches = 0
                   /\ call.cb = "none"
        /\ qf_calls[c].hit => qf_calls'[c] = qf_calls[c]
    ]_vars

\* a call hit a cached route of two partitions whose order is not by queue id
C3_Witness ==
  \E c \in QfIndex :
    /\ qf_calls[c].hit
    /\ Len(qf_calls[c].topic_route) = 2
    /\ qf_calls[c].topic_route[1].id = 1
    /\ Len(qf_calls[c].promise.value) = 2


\* C15: the route-table mutex is held by a queuesFor call only between its
\* lock and the end of its lookup: it is released on the hit path and on the
\* miss path before getRouteFor is called, and is not held by the call while
\* its fetch is outstanding or after its callback ran.
C15_LockNotHeldAcrossFetch ==
  \A c \in QfIndex :
    /\ (route_mtx = c) <=> (qf_calls[c].pc = "locked")
    /\ qf_calls[c].pc \in {"fetch", "returned"} => route_mtx # c
    /\ qf_calls[c].cb \in {"pending", "fired"} => route_mtx # c

\* one call is about to fetch after a miss while another call holds the mutex
C15_Witness ==
  \E c, d \in QfIndex :
    /\ qf_calls[c].pc = "fetch"
    /\ qf_calls[d].pc = "locked"
    /\ route_mtx = d

\* C16: with the refresher publishing routes while queuesFor calls run, a
\* call that found its topic returns the queue references of a route that
\* was published in whole for that topic (never of an entry still being
\* written), and its result stays what it was when the route is replaced
\* later; any other call took the miss path with nothing read.
C16_ReadersSeeWholeRoutes ==
  \A c \in QfIndex :
    LET call == qf_calls[c]
    IN IF call.hit
         THEN /\ <<call.topic, call.topic_route>> \in published
              /\ Len(call.promise.value) = Len(call.topic_route)
              /\ \A i \in 1..Len(call.topic_route) :
                   call.promise.value[i] = asMessageQueue(call.topic_route[i])
         ELSE call.topic_route = <<>>

\* a call returned a whole two-partition route of a topic whose entry the
\* refresher is replacing right now, and another reader of that topic waits
C16_Witness ==
  \E c, d \in QfIndex :
    /\ qf_calls[c].hit
    /\ Len(qf_calls[c].promise.value) = 2
    /\ refresher.busy
    /\ refresher.topic = qf_calls[c].topic
    /\ refresher.partitions # qf_calls[c].topic_route
    /\ topic_route_table_[qf_calls[c].topic] # refresher.partitions
    /\ qf_calls[d].topic = qf_calls[c].topic
    /\ qf_calls[d].pc = "lock"

\* C18: queuesFor calls are independent: every call that missed the cache
\* has made its own fetch, a promise changes only in a step of its own call
\* (its lookup or the completion of its own fetch) and that step leaves every
\* other call as it was, and no promise is ever set twice.
C18_CallsIndependent ==
  [][ \A c \in QfIndex :
        /\ qf_calls'[c].promise.sets <= 1
        /\ (qf_calls[c].pc = "returned" /\ ~qf_calls[c].hit) => qf_calls[c].fetches = 1
        /\ qf_calls'[c].promise # qf_calls[c].promise =>
             /\ \/ qf_calls[c].pc = "locked"
                \/ qf_calls[c].cb = "pending" /\ qf_calls'[c].cb = "fired"
             /\ \A d \in QfIndex \ {c} : qf_calls'[d] = qf_calls[d]
    ]_vars

\* two calls for the same absent topic, each with its own fetch, resolved
\* with different routes
C18_Witness ==
  \E c, d \in QfIndex :
    /\ c # d
    /\ qf_calls[c].topic = qf_calls[d].topic
    /\ qf_calls[c].fetches = 1 /\ qf_calls[d].fetches = 1
    /\ qf_calls[c].cb = "fired" /\ qf_calls[d].cb = "fired"
    /\ qf_calls[c].promise.sets = 1 /\ qf_calls[d].promise.sets = 1
    /\ Len(qf_calls[c].promise.value) = 2
    /\ qf_calls[c].promise.value # qf_calls[d].promise.value

(***************************************************************************)
(* Client configuration and collaborators shared by queryOffset and pull   *)
(***************************************************************************)
arn_ == "arn-namespace"

group_name_ == "GroupA"

clientId == "client-1"

\* Signature::sign(this, metadata): the authentication headers of a call
Sign == [authorization |-> "signature"]

NanosPerSecond == 1000000000

\* absl::ToInt64Seconds: whole seconds, truncated toward zero
ToInt64Seconds(duration) ==
  IF duration >= 0 THEN duration \div NanosPerSecond
  ELSE -((-duration) \div NanosPerSecond)

\* lines 68-71 and 103-106: seconds and the nanosecond remainder of a
\* duration (the remainder has the sign of the duration and fits set_nanos)
DurationPartsWholeSeconds(duration) ==
  [seconds |-> ToInt64Seconds(duration), nanos |-> 0]

DurationParts(duration) ==
  [seconds |-> ToInt64Seconds(duration),
   nanos |-> duration - ToInt64Seconds(duration) * NanosPerSecond]

\* the queue references callers pass in: those of the routes, and one whose
\* service address was never filled in
MessageQueues ==
  { asMessageQueue(Partition("TopicA", 0)),
    asMessageQueue(Partition("TopicB", 1)),
    [topic |-> "TopicA", queue_id |-> 1, service_address |-> ""] }

\* lines 75-78 and 110-112: the partition reference of a request
PartitionOf(message_queue) ==
  [topic |-> [name |-> message_queue.topic, arn |-> arn_],
   id |-> message_queue.queue_id]

(***************************************************************************)
(* Offset query: queryOffset(query)                                        *)
(***************************************************************************)
Policies == {"BEGINNING", "END", "TIME_POINT"}

\* query.time_point.time_since_epoch() in nanoseconds
TimePoints == {0, 999999999, 1500000000, -1500000000}

OffsetQueries ==
  { [message_queue |-> mq, policy |-> p, time_point |-> tp]
      : mq \in {q \in MessageQueues : q.service_address # ""},
        p \in Policies, tp \in TimePoints }

\* the offsets a QueryOffsetResponse may carry
ResponseOffsets == {0, 42}

QueryOffsetResponses == {[offset |-> o] : o \in ResponseOffsets}

\* lines 59-67: the switch from QueryOffsetPolicy to rmq::QueryOffsetPolicy
RmqPolicyFallThrough(policy) ==
  CASE policy = "BEGINNING" -> "rmq::QueryOffsetPolicy::BEGINNING"
    [] policy = "END" -> "rmq::QueryOffsetPolicy::BEGINNING"
    [] policy = "TIME_POINT" -> "rmq::QueryOffsetPolicy::TIME_POINT"

RmqPolicy(policy) ==
  CASE policy = "BEGINNING" -> "rmq::QueryOffsetPolicy::BEGINNING"
    [] policy = "END" -> "rmq::QueryOffsetPolicy::END"
    [] policy = "TIME_POINT" -> "rmq::QueryOffsetPolicy::TIME_POINT"

\* lines 58-78: the request built from the query
QueryOffsetRequest(query) ==
  [policy |-> RmqPolicy(query.policy),
   has_time_point |-> query.policy = "TIME_POINT",
   time_point |-> IF query.policy = "TIME_POINT"
                    THEN DurationParts(query.time_point)
                    ELSE [seconds |-> 0, nanos |-> 0],
   partition |-> PartitionOf(query.message_queue)]

\* lines 86-93: the completion callback of queryOffset
QueryOffsetCallbackNoReturn(promise, ok, response) ==
  IF ok
    THEN set_exception(set_value(promise, response.offset),
                       MQClientException(<<"Failed to query offset">>, -1))
    ELSE set_exception(promise, MQClientException(<<"Failed to query offset">>, -1))

QueryOffsetCallback(promise, ok, response) ==
  IF ok
    THEN set_value(promise, response.offset)
    ELSE set_exception(promise, MQClientException(<<"Failed to query offset">>, -1))

QoIndex == 1..Len(qo_calls)

\* lines 57-98: queryOffset builds the request, signs it and dispatches it once
QueryOffsetCall(query) ==
  /\ Len(qo_calls) < MaxQueryOffsetCalls
  /\ qo_calls' = Append(qo_calls,
       [query |-> query,
        promise |-> NewPromise(0),
        dispatches |-> <<[target |-> query.message_queue.service_address,
                          metadata |-> Sign,
                          request |-> QueryOffsetRequest(query),
                          timeout |-> "io_timeout_"]>>,
        cb |-> "pending",
        ok |-> FALSE,
        response |-> [offset |-> 0]])
  /\ dispatched_in' = dispatched_in \cup {<<"queryOffset", state_>>}
  /\ UNCHANGED <<lifecycle_vars, route_vars, pull_vars, heartbeat_vars>>

\* the gateway completes the call and invokes the callback of lines 86-93
QueryOffsetCompletes(c, ok, response) ==
  /\ qo_calls[c].cb = "pending"
  /\ qo_calls' = [qo_calls EXCEPT ![c].cb = "fired",
                                  ![c].ok = ok,
                                  ![c].response = response,
                                  ![c].promise = QueryOffsetCallback(@, ok, response)]
  /\ UNCHANGED <<lifecycle_vars, route_vars, pull_vars, heartbeat_vars, dispatched_in>>

(***************************************************************************)
(* Offset query claims                                                     *)
(***************************************************************************)
\* C5: once the completion callback of a queryOffset call has been invoked,
\* its future is resolved exactly once: with the offset of the response when
\* the completion is ok, with the failure "Failed to query offset" when it is
\* not; and every queryOffset call dispatches exactly one request.
C5_QueryOffsetResolvedOnce ==
  \A c \in QoIndex :
    LET call == qo_calls[c]
    IN /\ Len(call.dispatches) = 1
       /\ call.cb = "pending" => call.promise.sets = 0
       /\ call.cb = "fired" =>
            /\ call.promise.sets = 1
            /\ call.ok => /\ call.promise.state = "value"
                          /\ call.promise.value = call.response.offset
            /\ ~call.ok => /\ call.promise.state = "exception"
                           /\ call.promise.exception.message = <<"Failed to query offset">>

\* one call completed ok with a non-zero offset and another one failed
C5_Witness ==
  \E c, d \in QoIndex :
    /\ qo_calls[c].cb = "fired" /\ qo_calls[c].ok /\ qo_calls[c].promise.value = 42
    /\ qo_calls[d].cb = "fired" /\ ~qo_calls[d].ok
    /\ qo_calls[d].promise.state = "exception"

\* the request a queryOffset call handed to the gateway
RequestOf(c) == qo_calls[c].dispatches[1].request

\* C11: the request of a TIME_POINT query carries a time point whose whole
\* seconds and nanosecond remainder (of magnitude below one second) recombine
\* to the query's timestamp: seconds * 10^9 + nanos = timestamp in
\* nanoseconds; the request of a BEGINNING or END query carries no time point.
C11_TimePointDecomposed ==
  \A c \in QoIndex :
    LET query == qo_calls[c].query
        request == RequestOf(c)
    IN IF query.policy = "TIME_POINT"
         THEN /\ request.has_time_point
              /\ request.time_point.seconds * NanosPerSecond + request.time_point.nanos
                   = query.time_point
              /\ request.time_point.nanos < NanosPerSecond
              /\ request.time_point.nanos > -NanosPerSecond
         ELSE /\ ~request.has_time_point
              /\ request.time_point = [seconds |-> 0, nanos |-> 0]

\* a timestamp after and one before the epoch, neither on a second boundary,
\* and an END query made with a non-zero timestamp
C11_Witness ==
  \E c, d \in QoIndex :
    /\ qo_calls[c].query.policy = "TIME_POINT"
    /\ qo_calls[c].query.time_point = 1500000000
    /\ RequestOf(c).time_point = [seconds |-> 1, nanos |-> 500000000]
    /\ \/ /\ qo_calls[d].query.policy = "TIME_POINT"
          /\ qo_calls[d].query.time_point = -1500000000
          /\ RequestOf(d).time_point.nanos = -500000000
       \/ /\ qo_calls[d].query.policy = "END"
          /\ qo_calls[d].query.time_point = 999999999
          /\ ~RequestOf(d).has_time_point

\* the rmq policy each query policy stands for
PolicyNames ==
  { <<"BEGINNING", "rmq::QueryOffsetPolicy::BEGINNING">>,
    <<"END", "rmq::QueryOffsetPolicy::END">>,
    <<"TIME_POINT", "rmq::QueryOffsetPolicy::TIME_POINT">> }

\* C12: for every policy, the dispatched request carries the policy of the
\* query and a partition reference made of the query's topic name, the
\* client's namespace identifier and the query's queue id, and it is
\* dispatched to the service address of the query's partition.
C12_RequestCarriesQuery ==
  \A c \in QoIndex :
    LET query == qo_calls[c].query
        request == RequestOf(c)
    IN /\ <<query.policy, request.policy>> \in PolicyNames
       /\ request.partition.topic.name = query.message_queue.topic
       /\ request.partition.topic.arn = arn_
       /\ request.partition.id = query.message_queue.queue_id
       /\ qo_calls[c].dispatches[1].target = query.message_queue.service_address

\* an END query for queue 1 of TopicB, dispatched to that queue's broker
C12_Witness ==
  \E c \in QoIndex :
    /\ qo_calls[c].query.policy = "END"
    /\ qo_calls[c].query.message_queue.topic = "TopicB"
    /\ RequestOf(c).partition.id = 1
    /\ qo_calls[c].dispatches[1].target = "broker-b:8081"


(***************************************************************************)
(* Pull: pull(query, cb)                                                   *)
(***************************************************************************)
\* google::rpc::Code::OK
OK == 0

AwaitTimes == {1500000000}

PullQueries ==
  { [message_queue |-> mq, offset |-> 7, await_time |-> a]
      : mq \in MessageQueues, a \in AwaitTimes }

\* lines 101-113: the request built from the query
PullMessageRequest(query) ==
  [offset |-> query.offset,
   await_time |-> DurationParts(query.await_time),
   group |-> [name |-> group_name_, arn |-> arn_],
   partition |-> PartitionOf(query.message_queue),
   client_id |-> clientId]

\* the wire messages of a response: message i either decodes or does not
WireMessageLists ==
  UNION { { [i \in 1..n |-> [id |-> i, decodable |-> f[i]]] : f \in [1..n -> BOOLEAN] }
          : n \in 0..MaxMessages }

\* common().status() of a response: the business status
BizStatuses ==
  { [code |-> OK, message |-> <<"ok">>],
    [code |-> 5, message |-> <<"partition not found">>] }

\* min_offset, max_offset, next_offset of a response
Envelopes == { <<2, 9, 4>> }

PullMessageResponses ==
  { [status |-> st, messages |-> ms,
     min_offset |-> e[1], max_offset |-> e[2], next_offset |-> e[3]]
      : st \in BizStatuses, ms \in WireMessageLists, e \in Envelopes }

\* const InvocationContext<PullMessageResponse>*: null, or a context with the
\* transport status and the response
NullContext ==
  [null |-> TRUE, status_ok |-> FALSE,
   response |-> [status |-> [code |-> OK, message |-> <<>>], messages |-> <<>>,
                 min_offset |-> 0, max_offset |-> 0, next_offset |-> 0]]

InvocationContexts ==
  {NullContext} \cup
  { [null |-> FALSE, status_ok |-> ok, response |-> r]
      : ok \in BOOLEAN, r \in PullMessageResponses }

\* client_manager_->wrapMessage(item, message_ext): whether the wire message
\* decodes, and the message it decodes to
wrapMessage(item) == item.decodable

WrappedMessage(item) == [msg_id |-> item.id, queue_offset |-> item.id]

\* fmt::format("Server[{}] is not reachable", target_host)
NotReachableMessage(target_host) == <<"Server[", target_host, "] is not reachable">>

\* line 119: no invocation context, or a transport status that is not ok
TransportFailedNullOnly(ctx) == ctx.null

TransportFailed(ctx) == ctx.null \/ ~ctx.status_ok

\* line 128: the exception of a non-OK business status
BizExceptionNoCode(response) == MQClientException(response.status.message, -1)

BizException(response) == MQClientException(response.status.message, response.status.code)

\* lines 133-139: decode the wire messages in order, keeping those that
\* wrapMessage accepts
RECURSIVE DecodeMessagesKeepAll(_)
DecodeMessagesKeepAll(items) ==
  IF items = <<>> THEN <<>>
  ELSE <<WrappedMessage(Head(items))>> \o DecodeMessagesKeepAll(Tail(items))

RECURSIVE DecodeMessages(_)
DecodeMessages(items) ==
  IF items = <<>> THEN <<>>
  ELSE (IF wrapMessage(Head(items)) THEN <<WrappedMessage(Head(items))>> ELSE <<>>)
         \o DecodeMessages(Tail(items))

\* line 140: PullResult(min, max, next, messages)
PullResult(min_offset, max_offset, next_offset, messages) ==
  [min |-> min_offset, max |-> max_offset, next |-> next_offset, messages |-> messages]

\* lines 133-141: the success path of the callback
PullSuccess(response) ==
  [on_exception |-> <<>>,
   on_success |-> <<PullResult(response.min_offset, response.max_offset,
                               response.next_offset, DecodeMessages(response.messages))>>,
   wrap_calls |-> Len(response.messages),
   pull_results |-> 1]

\* lines 118-142: what the completion callback of pull does: the calls it
\* makes on the handler, the wrapMessage calls, the PullResults it constructs
PullCallbackNoReturn(ctx, target_host) ==
  IF TransportFailed(ctx)
    THEN [on_exception |-> <<MQClientException(NotReachableMessage(target_host), -1)>>,
          on_success |-> <<>>, wrap_calls |-> 0, pull_results |-> 0]
  ELSE IF OK # ctx.response.status.code
    THEN [PullSuccess(ctx.response) EXCEPT !.on_exception = <<BizException(ctx.response)>>]
  ELSE PullSuccess(ctx.response)

PullCallback(ctx, target_host) ==
  IF TransportFailed(ctx)
    THEN [on_exception |-> <<MQClientException(NotReachableMessage(target_host), -1)>>,
          on_success |-> <<>>, wrap_calls |-> 0, pull_results |-> 0]
  ELSE IF OK # ctx.response.status.code
    THEN [on_exception |-> <<BizException(ctx.response)>>,
          on_success |-> <<>>, wrap_calls |-> 0, pull_results |-> 0]
  ELSE PullSuccess(ctx.response)

PullIndex == 1..Len(pull_calls)

\* the process is alive: no pull has aborted on its assertion
NoAbort == \A c \in PullIndex : ~pull_calls[c].aborted

NewPullCall(query) ==
  [query |-> query, target_host |-> query.message_queue.service_address,
   aborted |-> FALSE, dispatches |-> <<>>, cb |-> "none", ctx |-> NullContext,
   on_exception |-> <<>>, on_success |-> <<>>, wrap_calls |-> 0, pull_results |-> 0]

\* lines 100-148: pull builds the request, signs it and dispatches it.
\* assert_enabled: whether the build compiles the assert of line 116
PullCall(query, assert_enabled) ==
  /\ Len(pull_calls) < MaxPullCalls
  /\ NoAbort
  /\ LET call == NewPullCall(query)
     IN IF assert_enabled /\ call.target_host = ""
          THEN /\ pull_calls' = Append(pull_calls, [call EXCEPT !.aborted = TRUE])
               /\ UNCHANGED dispatched_in
          ELSE /\ pull_calls' = Append(pull_calls,
                    [call EXCEPT !.cb = "pending",
                                 !.dispatches = <<[target |-> call.target_host,
                                                   metadata |-> Sign,
                                                   request |-> PullMessageRequest(query),
                                                   timeout |-> "long_polling_timeout_"]>>])
               /\ dispatched_in' = dispatched_in \cup {<<"pullMessage", state_>>}
  /\ UNCHANGED <<lifecycle_vars, route_vars, offset_vars, heartbeat_vars>>

\* the gateway completes the call and invokes the callback of lines 118-142
PullCompletes(c, ctx) ==
  /\ NoAbort
  /\ pull_calls[c].cb = "pending"
  /\ LET effects == PullCallback(ctx, pull_calls[c].target_host)
     IN pull_calls' = [pull_calls EXCEPT ![c].cb = "fired",
                                         ![c].ctx = ctx,
                                         ![c].on_exception = @ \o effects.on_exception,
                                         ![c].on_success = @ \o effects.on_success,
                                         ![c].wrap_calls = @ + effects.wrap_calls,
                                         ![c].pull_results = @ + effects.pull_results]
  /\ UNCHANGED <<lifecycle_vars, route_vars, offset_vars, heartbeat_vars, dispatched_in>>

(***************************************************************************)
(* Pull claims                                                             *)
(***************************************************************************)
Completed(c) == pull_calls[c].cb = "fired"

\* C2: for every pull whose completion callback has been invoked, exactly one
\* of onSuccess / onException has been called on its handler, whatever the
\* context, transport status, business status and messages were; before the
\* completion neither has been called.
C2_ExactlyOneHandlerCall ==
  \A c \in PullIndex :
    /\ Completed(c) =>
         Len(pull_calls[c].on_success) + Len(pull_calls[c].on_exception) = 1
    /\ ~Completed(c) =>
         Len(pull_calls[c].on_success) + Len(pull_calls[c].on_exception) = 0

\* a completion with a non-OK business status and messages: onException only
C2_Witness ==
  \E c \in PullIndex :
    /\ Completed(c)
    /\ ~pull_calls[c].ctx.null /\ pull_calls[c].ctx.status_ok
    /\ pull_calls[c].ctx.response.status.code # OK
    /\ Len(pull_calls[c].ctx.response.messages) = MaxMessages
    /\ Len(pull_calls[c].on_exception) = 1

\* the pieces of a message contain the text
Mentions(message, text) == \E i \in 1..Len(message) : message[i] = text

\* C6: a pull completion without a context or with a non-ok transport status
\* calls onException once, with an error whose message names the address the
\* pull was dispatched to; no PullResult is constructed and onSuccess is not
\* called, whatever the business status of the response is.
C6_TransportFailure ==
  \A c \in PullIndex :
    (Completed(c) /\ (pull_calls[c].ctx.null \/ ~pull_calls[c].ctx.status_ok)) =>
      /\ Len(pull_calls[c].on_exception) = 1
      /\ Mentions(pull_calls[c].on_exception[1].message, pull_calls[c].dispatches[1].target)
      /\ pull_calls[c].pull_results = 0
      /\ pull_calls[c].on_success = <<>>

\* a context with a failed transport status whose response says OK and
\* carries messages
C6_Witness ==
  \E c \in PullIndex :
    /\ Completed(c)
    /\ ~pull_calls[c].ctx.null /\ ~pull_calls[c].ctx.status_ok
    /\ pull_calls[c].ctx.response.status.code = OK
    /\ pull_calls[c].ctx.response.messages # <<>>
    /\ pull_calls[c].dispatches[1].target = "broker-b:8081"
    /\ Len(pull_calls[c].on_exception) = 1

\* C7: a pull completion with an ok transport status and a business status
\* other than OK calls onException once, with the message and the code of the
\* business status; no message is decoded and onSuccess is not called.
C7_BusinessFailure ==
  \A c \in PullIndex :
    LET ctx == pull_calls[c].ctx
    IN (Completed(c) /\ ~ctx.null /\ ctx.status_ok /\ ctx.response.status.code # OK) =>
         /\ Len(pull_calls[c].on_exception) = 1
         /\ pull_calls[c].on_exception[1].message = ctx.response.status.message
         /\ pull_calls[c].on_exception[1].code = ctx.response.status.code
         /\ pull_calls[c].wrap_calls = 0
         /\ pull_calls[c].on_success = <<>>

\* a business failure whose response carries decodable messages
C7_Witness ==
  \E c \in PullIndex :
    LET ctx == pull_calls[c].ctx
    IN /\ Completed(c) /\ ~ctx.null /\ ctx.status_ok
       /\ ctx.response.status.code = 5
       /\ \E i \in 1..Len(ctx.response.messages) : ctx.response.messages[i].decodable
       /\ pull_calls[c].on_exception # <<>>

\* the wire messages the decoder accepts, in their order
Accepted(items) == SelectSeq(items, LAMBDA m : m.decodable)

\* C8: a pull completion with an ok transport status and business status OK
\* calls onSuccess once and onException never; the PullResult holds exactly
\* the wire messages the decoder accepted, in their original order (possibly
\* none), and the min / max / next offsets of the response.
C8_SuccessResult ==
  \A c \in PullIndex :
    LET ctx == pull_calls[c].ctx
    IN (Completed(c) /\ ~ctx.null /\ ctx.status_ok /\ ctx.response.status.code = OK) =>
         /\ pull_calls[c].on_exception = <<>>
         /\ Len(pull_calls[c].on_success) = 1
         /\ LET result == pull_calls[c].on_success[1]
                accepted == Accepted(ctx.response.messages)
            IN /\ Len(result.messages) = Len(accepted)
               /\ \A i \in 1..Len(accepted) :
                    result.messages[i] = WrappedMessage(accepted[i])
               /\ result.min = ctx.response.min_offset
               /\ result.max = ctx.response.max_offset
               /\ result.next = ctx.response.next_offset

\* three wire messages of which the middle one does not decode
C8_Witness ==
  \E c \in PullIndex :
    LET ctx == pull_calls[c].ctx
    IN /\ Completed(c) /\ ~ctx.null /\ ctx.status_ok /\ ctx.response.status.code = OK
       /\ Len(ctx.response.messages) = 3
       /\ ~ctx.response.messages[2].decodable
       /\ Len(pull_calls[c].on_success) = 1
       /\ Len(pull_calls[c].on_success[1].messages) = 2
       /\ pull_calls[c].on_success[1].next = 4


\* C13: pull never dispatches to an empty target address: a pull whose
\* partition has an empty service address fails fast and pullMessage is not
\* invoked for it.
C13_NoEmptyDispatch ==
  \A c \in PullIndex :
    /\ \A i \in 1..Len(pull_calls[c].dispatches) : pull_calls[c].dispatches[i].target # ""
    /\ pull_calls[c].query.message_queue.service_address = ""
         => (pull_calls[c].aborted /\ pull_calls[c].dispatches = <<>>)

(***************************************************************************)
(* Heartbeat: prepareHeartbeatData(request)                                *)
(***************************************************************************)
\* rmq::HeartbeatEntry: which group field of the entry is filled in, and the
\* group resource (name and arn) put there
HeartbeatEntry(kind, name, arn) == [kind |-> kind, group |-> [name |-> name, arn |-> arn]]

\* the entries other clients of the same client manager contribute
OtherEntries ==
  { HeartbeatEntry("producer_group", "OtherProducers", arn_),
    HeartbeatEntry("consumer_group", "OtherConsumers", arn_) }

\* lines 151-153: the entry this consumer builds
PreparedEntry == HeartbeatEntry("producer_group", group_name_, arn_)

\* another client appends its entry to the request
OtherClientPrepares(entry) ==
  /\ Len(heartbeat_request) < MaxHeartbeatEntries
  /\ heartbeat_request' = Append(heartbeat_request, entry)
  /\ UNCHANGED <<hb_calls, dispatched_in>>
  /\ UNCHANGED <<lifecycle_vars, route_vars, offset_vars, pull_vars>>

\* lines 150-155: prepareHeartbeatData(request)
PrepareHeartbeatData ==
  /\ Len(heartbeat_request) < MaxHeartbeatEntries
  /\ heartbeat_request' = Append(heartbeat_request, PreparedEntry)
  /\ hb_calls' = hb_calls + 1
  /\ UNCHANGED dispatched_in
  /\ UNCHANGED <<lifecycle_vars, route_vars, offset_vars, pull_vars>>

(***************************************************************************)
(* Heartbeat claims                                                        *)
(***************************************************************************)
\* C14: a prepareHeartbeatData call appends exactly one entry to the request,
\* the entry describes this consumer's group (group name and namespace) as a
\* consumer group, the entries already in the request stay as they were, and
\* no client state changes.
C14_AppendsConsumerGroupEntry ==
  [][ hb_calls' # hb_calls =>
        /\ Len(heartbeat_request') = Len(heartbeat_request) + 1
        /\ SubSeq(heartbeat_request', 1, Len(heartbeat_request)) = heartbeat_request
        /\ heartbeat_request'[Len(heartbeat_request')]
             = HeartbeatEntry("consumer_group", group_name_, arn_)
        /\ UNCHANGED <<lifecycle_vars, route_vars, offset_vars, pull_vars>>
    ]_vars

(***************************************************************************)
(* All operations side by side with the lifecycle                          *)
(***************************************************************************)
\* the calls and route updates made so far
FrameLoad ==
  nlifecycle + nupdates + Len(qf_calls) + Len(qo_calls) + Len(pull_calls) + hb_calls

\* the inputs used when the operations run next to the lifecycle: one
\* thread starts and shuts down, one topic with one route
FrameThreads == {t \in Threads : \A u \in Threads : t <= u}

FrameTopics == {"TopicA"}

FrameRoutes(topic) == { r \in RouteChoices(topic) : Len(r) > 0 /\ r[1].id = 0 }

FrameRoutePtrs(topic) == {NullRoute} \cup {RoutePtr(r) : r \in FrameRoutes(topic)}

FrameOffsetQueries ==
  { q \in OffsetQueries : q.time_point = 1500000000 /\ q.message_queue.topic = "TopicA" }

FramePullQueries == { q \in PullQueries : q.message_queue.topic = "TopicA" }

FrameContexts ==
  { ctx \in InvocationContexts :
      ctx.null \/ ctx.response.messages = <<[id |-> 1, decodable |-> TRUE]>> }

\* C19: a step of queuesFor, queryOffset, pull, one of their completion
\* callbacks or prepareHeartbeatData (any step outside start() / shutdown()
\* and outside the refresher) leaves ClientState and the route cache as they
\* were; and the operations do not depend on ClientState: in whatever state
\* the client is, queryOffset dispatches its request, pull dispatches unless
\* its assertion aborts, and a queuesFor that missed makes its fetch.
C19_OperationsFrame ==
  [][ /\ pc' = pc => state_' = state_
      /\ (nupdates' = nupdates /\ refresher' = refresher)
           => topic_route_table_' = topic_route_table_
      /\ Len(qo_calls') > Len(qo_calls) =>
           /\ Len(qo_calls'[Len(qo_calls')].dispatches) = 1
           /\ <<"queryOffset", state_>> \in dispatched_in'
      /\ (Len(pull_calls') > Len(pull_calls) /\ ~pull_calls'[Len(pull_calls')].aborted) =>
           /\ Len(pull_calls'[Len(pull_calls')].dispatches) = 1
           /\ <<"pullMessage", state_>> \in dispatched_in'
      /\ \A c \in QfIndex :
           (qf_calls[c].pc = "fetch" /\ qf_calls'[c].pc # "fetch") =>
             /\ qf_calls'[c].fetches = 1
             /\ <<"getRouteFor", state_>> \in dispatched_in'
    ]_vars

\* a pull was dispatched after the client had stopped and has completed; the
\* client is still STOPPED
C19_Witness ==
  /\ state_ = "STOPPED"
  /\ <<"pullMessage", "STOPPED">> \in dispatched_in
  /\ \E c \in PullIndex : pull_calls[c].cb = "fired" /\ pull_calls[c].on_success # <<>>

(***************************************************************************)
(* Specifications                                                          *)
(***************************************************************************)
Init ==
  /\ state_ = "INITIAL"
  /\ pc = [t \in Threads |-> "idle"]
  /\ observers = 0
  /\ stopped_logs = 0
  /\ reads = [started |-> 0, other |-> 0]
  /\ nlifecycle = 0
  /\ topic_route_table_ = [t \in {} |-> <<>>]
  /\ route_mtx = 0
  /\ qf_calls = <<>>
  /\ nupdates = 0
  /\ refresher = NoUpdate
  /\ published = {}
  /\ qo_calls = <<>>
  /\ pull_calls = <<>>
  /\ heartbeat_request = <<>>
  /\ hb_calls = 0
  /\ dispatched_in = {}

NextLifecycle ==
  \/ \E t \in Threads : StartCall(t)
  \/ \E t \in Threads : StartBase(t)
  \/ \E t \in Threads : StartBaseEnd(t)
  \/ \E t \in Threads : StartCheck(t)
  \/ \E t \in Threads : StartRegister(t)
  \/ \E t \in Threads : ShutdownCall(t)
  \/ \E t \in Threads : ShutdownBase(t)
  \/ \E t \in Threads : ShutdownCas(t)

SpecLifecycle == Init /\ [][NextLifecycle]_vars

NextRoute ==
  \/ \E topic \in Topics : QueuesForCall(topic)
  \/ \E c \in QfIndex : QueuesForLock(c)
  \/ \E c \in QfIndex : QueuesForLookup(c)
  \/ \E c \in QfIndex : QueuesForFetch(c)
  \/ \E c \in QfIndex : \E route \in RoutePtrs(qf_calls[c].topic) : RouteFetchCompletes(c, route)
  \/ \E topic \in Topics : \E partitions \in RouteChoices(topic) : UpdateRouteBegin(topic, partitions)
  \/ UpdateRoutePublish

SpecRoute == Init /\ [][NextRoute]_vars

NextOffset ==
  \/ \E query \in OffsetQueries : QueryOffsetCall(query)
  \/ \E c \in QoIndex : \E ok \in BOOLEAN : \E response \in QueryOffsetResponses :
       QueryOffsetCompletes(c, ok, response)

SpecOffset == Init /\ [][NextOffset]_vars

NextPull ==
  \/ \E query \in PullQueries : \E assert_enabled \in BOOLEAN : PullCall(query, assert_enabled)
  \/ \E c \in PullIndex : \E ctx \in InvocationContexts : PullCompletes(c, ctx)

SpecPull == Init /\ [][NextPull]_vars

NextHeartbeat ==
  \/ \E entry \in OtherEntries : OtherClientPrepares(entry)
  \/ PrepareHeartbeatData

SpecHeartbeat == Init /\ [][NextHeartbeat]_vars

NextFrame ==
  /\ \/ \E t \in FrameThreads : StartCall(t)
     \/ \E t \in FrameThreads : StartBase(t)
     \/ \E t \in FrameThreads : StartBaseEnd(t)
     \/ \E t \in FrameThreads : StartCheck(t)
     \/ \E t \in FrameThreads : StartRegister(t)
     \/ \E t \in FrameThreads : ShutdownCall(t)
     \/ \E t \in FrameThreads : ShutdownBase(t)
     \/ \E t \in FrameThreads : ShutdownCas(t)
     \/ \E topic \in FrameTopics : QueuesForCall(topic)
     \/ \E c \in QfIndex : QueuesForLock(c)
     \/ \E c \in QfIndex : QueuesForLookup(c)
     \/ \E c \in QfIndex : QueuesForFetch(c)
     \/ \E c \in QfIndex : \E route \in FrameRoutePtrs(qf_calls[c].topic) : RouteFetchCompletes(c, route)
     \/ \E topic \in FrameTopics : \E partitions \in FrameRoutes(topic) : UpdateRouteBegin(topic, partitions)
     \/ UpdateRoutePublish
     \/ \E query \in FrameOffsetQueries : QueryOffsetCall(query)
     \/ \E c \in QoIndex : \E ok \in BOOLEAN : QueryOffsetCompletes(c, ok, [offset |-> 42])
     \/ \E query \in FramePullQueries : \E assert_enabled \in BOOLEAN : PullCall(query, assert_enabled)
     \/ \E c \in PullIndex : \E ctx \in FrameContexts : PullCompletes(c, ctx)
     \/ PrepareHeartbeatData
  /\ FrameLoad' <= MaxFrameOps

SpecFrame == Init /\ [][NextFrame]_vars

Next == NextLifecycle \/ NextRoute \/ NextOffset \/ NextPull \/ NextHeartbeat

Spec == Init /\ [][Next]_vars

====
